---- MODULE Spec2Model ----
(***************************************************************************)
(* A model of update_languages.py: the archive member iterators, the      *)
(* LocateDependsOnStatement visitor, and run(), which resolves, downloads, *)
(* classifies and patches package definitions batch by batch.              *)
(*                                                                         *)
(* A package definition is kept the way run() handles it after            *)
(* contents.split("\n"): a sequence of lines.  A line is a record          *)
(* [ind, tok]: its indentation level and its statement text.               *)
(***************************************************************************)
EXTENDS Integers, Sequences, FiniteSets, TLC

VARIABLES
  fn,        \* which pure function a unit specification exercises
  fn_in,     \* its argument
  fn_out,    \* its result
  fn_pc,     \* "call" before the function is applied, "done" after
  DOWNLOADED_DIGESTS,  \* the module's set of digests handed to curl
  DIGEST_TO_LANGS,     \* the module's map digest -> list of languages
  download_dir,        \* DOWNLOAD_DIR: file name (a digest) -> archive
  curl_args,           \* the digests whose url is on curl's command line
  scan,                \* the archives os.scandir has not yet produced
  versions,            \* package -> digest of its preferred version, or "none"
  files,               \* package -> lines of its package.py
  pc,                  \* where run() stands
  lo,                  \* index of the first package of the current batch
  idx,                   \* index of the package a loop over the batch is at
  run_no,              \* 1 for the first invocation of the script, 2 for a second
  skipped,             \* packages that met a skip condition while resolving
  orig,                \* files as they were when this run started
  prev,                \* files and DIGEST_TO_LANGS as the previous run left them
  written,             \* digest -> how often this run stored its languages (line 189)
  requested            \* digest -> how often this run put its url on curl's command line

unitVars == <<fn, fn_in, fn_out, fn_pc>>
runVars == <<DOWNLOADED_DIGESTS, DIGEST_TO_LANGS, download_dir, curl_args, scan,
             versions, files, pc, lo, idx, run_no, skipped, orig, prev, written,
             requested>>
vars == <<fn, fn_in, fn_out, fn_pc, DOWNLOADED_DIGESTS, DIGEST_TO_LANGS,
          download_dir, curl_args, scan, versions, files, pc, lo, idx, run_no,
          skipped, orig, prev, written, requested>>

(***************************************************************************)
(* Bounds                                                                  *)
(***************************************************************************)
MaxLines == 4
NumPkgs == 2
\* BATCH_SIZE is 100 in the source; the model scales it down so that a run
\* of NumPkgs packages spans several batches
BATCH_SIZE == 1

\* The values the variables of run() keep in a unit specification, and the
\* unit variables in a specification of run()
RunIdle ==
  /\ DOWNLOADED_DIGESTS = {} /\ DIGEST_TO_LANGS = <<>> /\ download_dir = <<>>
  /\ curl_args = <<>> /\ scan = {} /\ versions = <<>> /\ files = <<>>
  /\ pc = "idle" /\ lo = 1 /\ idx = 1 /\ run_no = 1 /\ skipped = {}
  /\ orig = <<>> /\ prev = <<>> /\ written = <<>> /\ requested = <<>>

UnitIdle == fn = "run" /\ fn_in = <<>> /\ fn_out = <<>> /\ fn_pc = "idle"

(***************************************************************************)
(* Source text and ast.parse                                               *)
(***************************************************************************)
\* pkg_cls.__name__, the name handed to LocateDependsOnStatement (line 214)
PkgName == "Pkg"

\* The statement a line starts, as ast.parse names it; "blank" for an empty
\* line and "cont" for a line that continues the statement above it inside
\* its parentheses.
StmtKind(tok) ==
  CASE tok = "class Pkg:" -> "ClassDef"
    [] tok = "class Other:" -> "ClassDef"
    [] tok = "if cond:" -> "If"
    [] tok = "def f():" -> "FunctionDef"
    [] tok = "async def f():" -> "AsyncFunctionDef"
    [] tok = "f = lambda: version(...)" -> "Assign"
    [] tok = "f = lambda: None" -> "Assign"
    [] tok = "" -> "blank"
    [] tok = "  ...)" -> "cont"
    [] OTHER -> "Expr"

\* ClassDef.name
ClassName(tok) ==
  CASE tok = "class Pkg:" -> "Pkg"
    [] tok = "class Other:" -> "Other"
    [] OTHER -> ""

IsStmt(l) == StmtKind(l.tok) \notin {"blank", "cont"}
IsHeader(l) ==
  StmtKind(l.tok) \in {"ClassDef", "If", "FunctionDef", "AsyncFunctionDef"}
IsSimple(l) == StmtKind(l.tok) \in {"Expr", "Assign"}

\* One step of the tokenizer's indentation stack.  s.indents is the stack of
\* open indentation levels, s.needBody says the last statement was a block
\* header, s.canCont that the last line can be continued.
ScanLine(s, l) ==
  CASE StmtKind(l.tok) = "blank" -> [s EXCEPT !.canCont = FALSE]
    [] StmtKind(l.tok) = "cont" -> [s EXCEPT !.ok = s.ok /\ s.canCont]
    [] OTHER ->
         LET top == s.indents[Len(s.indents)]
             open == {k \in 1..Len(s.indents) : s.indents[k] = l.ind}
         IN IF s.needBody
            THEN [ok |-> s.ok /\ l.ind > top,
                  indents |-> Append(s.indents, l.ind),
                  needBody |-> IsHeader(l), canCont |-> IsSimple(l)]
            ELSE IF open = {}
                 THEN [s EXCEPT !.ok = FALSE]
                 ELSE [ok |-> s.ok,
                       indents |-> SubSeq(s.indents, 1, CHOOSE k \in open : TRUE),
                       needBody |-> IsHeader(l), canCont |-> IsSimple(l)]

RECURSIVE Scan(_, _)
Scan(lines, n) ==
  IF n = 0
  THEN [ok |-> TRUE, indents |-> <<0>>, needBody |-> FALSE, canCont |-> FALSE]
  ELSE LET s == Scan(lines, n - 1)
       IN IF s.ok THEN ScanLine(s, lines[n]) ELSE s

\* ast.parse(contents) returns a tree (TRUE) or raises SyntaxError (FALSE)
SyntaxOK(lines) ==
  LET s == Scan(lines, Len(lines)) IN s.ok /\ ~s.needBody

\* The statement whose block holds statement i; 0 is the Module.
Parent(lines, i) ==
  LET above == {j \in 1..(i - 1) : IsStmt(lines[j]) /\ lines[j].ind < lines[i].ind}
  IN IF above = {} THEN 0 ELSE CHOOSE j \in above : \A k \in above : k <= j

SetToSeq(S) ==
  LET RECURSIVE Build(_)
      Build(R) == IF R = {} THEN <<>>
                  ELSE LET m == CHOOSE x \in R : \A y \in R : x <= y
                       IN <<m>> \o Build(R \ {m})
  IN Build(S)

\* node.body of the statement at line j (of the Module for j = 0), in order
Body(lines, j) ==
  SetToSeq({i \in 1..Len(lines) : IsStmt(lines[i]) /\ Parent(lines, i) = j})

RECURSIVE ContLines(_, _)
ContLines(lines, i) ==
  IF i < Len(lines) /\ StmtKind(lines[i + 1].tok) = "cont"
  THEN 1 + ContLines(lines, i + 1) ELSE 0

\* stmt.end_lineno: the last line of the statement that starts at line i
RECURSIVE EndLineno(_, _)
EndLineno(lines, i) ==
  LET body == Body(lines, i)
  IN IF IsHeader(lines[i]) /\ body # <<>>
     THEN EndLineno(lines, body[Len(body)])
     ELSE i + ContLines(lines, i)

(***************************************************************************)
(* The syntax tree.  A node is [k, at, id]: its class, the line of the     *)
(* statement it belongs to, and ClassDef.name or Call.func.id.             *)
(***************************************************************************)
ModuleNode == [k |-> "Module", at |-> 0, id |-> ""]

StmtNode(lines, i) ==
  [k |-> StmtKind(lines[i].tok), at |-> i, id |-> ClassName(lines[i].tok)]

\* ast.iter_child_nodes(node), without the Name and arguments leaves (they
\* hold no ClassDef and no Call, so visiting them changes nothing)
Children(lines, node) ==
  CASE node.k \in {"Module", "ClassDef", "If", "FunctionDef", "AsyncFunctionDef"} ->
         LET body == Body(lines, node.at)
         IN [n \in 1..Len(body) |-> StmtNode(lines, body[n])]
    [] node.k = "Expr" ->
         <<[k |-> "Call", at |-> node.at,
            id |-> IF lines[node.at].tok = "version(...)"
                   THEN "version" ELSE "depends_on"]>>
    [] node.k = "Assign" -> <<[k |-> "Lambda", at |-> node.at, id |-> ""]>>
    [] node.k = "Lambda" ->
         IF lines[node.at].tok = "f = lambda: version(...)"
         THEN <<[k |-> "Call", at |-> node.at, id |-> "version"]>>
         ELSE <<>>
    [] OTHER -> <<>>

(***************************************************************************)
(* LocateDependsOnStatement                                                *)
(***************************************************************************)
\* __init__
VisitorInit ==
  [in_pkg_class |-> FALSE, stack |-> <<>>, last_version_stack |-> <<>>]

RECURSIVE generic_visit(_, _, _, _), VisitChildren(_, _, _, _)
\* ast.NodeVisitor.generic_visit: visit every child in field order; visit()
\* dispatches to generic_visit as the class defines no visit_<Class> method
VisitChildren(lines, pkgclass, kids, st) ==
  IF kids = <<>> THEN st
  ELSE VisitChildren(lines, pkgclass, Tail(kids),
                     generic_visit(lines, pkgclass, Head(kids), st))

generic_visit(lines, pkgclass, node, st) ==
  IF ~st.in_pkg_class
  THEN LET st1 == IF node.k = "ClassDef" /\ node.id = pkgclass
                  THEN [st EXCEPT !.in_pkg_class = TRUE] ELSE st
       IN VisitChildren(lines, pkgclass, Children(lines, node), st1)
  ELSE IF node.k = "Call"
       THEN IF node.id = "version"
            THEN [st EXCEPT !.last_version_stack = st.stack] ELSE st
       ELSE IF node.k = "FunctionDef"
            THEN st
            ELSE LET pushed == [st EXCEPT !.stack = Append(@, node)]
                     seen == VisitChildren(lines, pkgclass,
                                           Children(lines, node), pushed)
                 IN [seen EXCEPT !.stack = SubSeq(@, 1, Len(@) - 1)]

\* visitor.visit(tree)
Visit(lines, pkgclass) == generic_visit(lines, pkgclass, ModuleNode, VisitorInit)

\* Locate with the end line of the innermost element of the stack
Locate_Innermost(lines, pkgclass) ==
  LET v == Visit(lines, pkgclass)
      n == Len(v.last_version_stack)
  IN IF n = 0
     THEN [found |-> FALSE, line |-> 0]
     ELSE [found |-> TRUE, line |-> EndLineno(lines, v.last_version_stack[n].at)]

\* Locate with the line after the end line
Locate_LineAfter(lines, pkgclass) ==
  LET v == Visit(lines, pkgclass)
  IN IF v.last_version_stack = <<>>
     THEN [found |-> FALSE, line |-> 0]
     ELSE [found |-> TRUE, line |-> EndLineno(lines, v.last_version_stack[1].at) + 1]

\* Lines 214-221 of run(): the anchor, or not found
Locate(lines, pkgclass) ==
  LET v == Visit(lines, pkgclass)
  IN IF v.last_version_stack = <<>>
     THEN [found |-> FALSE, line |-> 0]
     ELSE [found |-> TRUE, line |-> EndLineno(lines, v.last_version_stack[1].at)]

(***************************************************************************)
(* Package definitions the unit specification of the locator draws from:   *)
(* every text of at most MaxLines lines that ast.parse accepts.            *)
(***************************************************************************)
\* The lines that may follow the prefix t: a block header is followed by a
\* body one level deeper, any other statement by a statement at one of the
\* open levels or by a continuation line; classes stand at module level and
\* callables inside a block.
NextLines(t) ==
  LET s == Scan(t, Len(t))
      top == s.indents[Len(s.indents)]
      inds == IF s.needBody THEN {top + 1}
              ELSE {s.indents[k] : k \in 1..Len(s.indents)}
      toks(i) == {"if cond:", "version(...)", "depends_on(...)"}
                 \cup (IF i = 0 THEN {"class Pkg:", "class Other:"}
                       ELSE {"def f():", "async def f():",
                             "f = lambda: version(...)"})
  IN UNION {{[ind |-> i, tok |-> k] : k \in toks(i)} : i \in inds}
     \cup (IF s.canCont THEN {[ind |-> top, tok |-> "  ...)"]} ELSE {})

RECURSIVE SourcesOfLen(_)
SourcesOfLen(n) ==
  IF n = 0 THEN {<<>>}
  ELSE UNION {{Append(t, l) : l \in NextLines(t)} : t \in SourcesOfLen(n - 1)}

Sources == {t \in UNION {SourcesOfLen(n) : n \in 0..MaxLines} : SyntaxOK(t)}

(***************************************************************************)
(* Unit specification of the locator                                       *)
(***************************************************************************)
LocateInit ==
  /\ fn = "locate"
  /\ fn_in \in {[contents |-> t] : t \in Sources}
  /\ fn_out = [found |-> FALSE, line |-> 0]
  /\ fn_pc = "call"
  /\ RunIdle

LocateCall ==
  /\ fn = "locate" /\ fn_pc = "call"
  /\ fn_out' = Locate(fn_in.contents, PkgName)
  /\ fn_pc' = "done"
  /\ UNCHANGED <<fn, fn_in>>
  /\ UNCHANGED runVars

LocateNext == LocateCall

SpecLocate == LocateInit /\ [][LocateNext]_vars

(***************************************************************************)
(* Downloaded files.  A file is [tar, bytes]: what tarfile finds when it   *)
(* reads the file, and the bytes iter_zipfile reads from it.               *)
(*                                                                         *)
(* tar is [comp, members, parsed, fail]: the compression of the stream,    *)
(* the members of the intact archive as [type, name], the number of member *)
(* headers that are parsed before header reading stops, and the reason it  *)
(* stops.  A path is a sequence of characters.                             *)
(***************************************************************************)
\* tarfile.REGULAR_TYPES, the member types for which TarInfo.isreg() holds
REGULAR_TYPES == {"REGTYPE", "AREGTYPE", "CONTTYPE", "GNUTYPE_SPARSE"}

\* Why TarFile.next() gets no further member: the block of zeros that ends an
\* archive, a header that is cut short, missing or invalid, a bad header
\* after an extended one, the data of the last member cut short, or the
\* compressed stream ending before its end-of-stream marker
HeaderFailures ==
  {"EOFHeaderError", "TruncatedHeaderError", "EmptyHeaderError",
   "InvalidHeaderError", "SubsequentHeaderError", "unexpected end of data",
   "compressed stream ended"}

\* What reading past the end of a cut compressed stream raises out of the
\* opener of that compression: gzopen turns only OSError into ReadError, so
\* gzip's EOFError leaves it as it is; bz2open and xzopen turn EOFError into
\* ReadError
StreamEnded(comp) == IF comp = "gz" THEN "EOFError" ELSE "ReadError"

\* Line 33, tarfile.open(p): the constructor reads the first header.  A
\* failure at offset 0 is raised as ReadError, except for the block of zeros
\* (an archive without members) and for what the decompressor raises.
tarfile_open(a) ==
  IF a.tar.parsed > 0 \/ a.tar.fail = "EOFHeaderError" THEN "TarFile"
  ELSE IF a.tar.fail = "compressed stream ended" THEN StreamEnded(a.tar.comp)
  ELSE "ReadError"

\* Lines 37-41: tar.next() until it returns None or raises; whatever it
\* raises is swallowed.  tar.members then holds the members whose headers
\* were parsed.
tar_members(a) == SubSeq(a.tar.members, 1, a.tar.parsed)

\* Lines 43-48: the names of the members for which isreg() holds, in order
RECURSIVE RegularNames(_)
RegularNames(members) ==
  IF members = <<>> THEN <<>>
  ELSE (IF Head(members).type \in REGULAR_TYPES THEN <<Head(members).name>> ELSE <<>>)
       \o RegularNames(Tail(members))

C_EXT == {<<".", "c">>}
CXX_EXT == {<<".", "c", "p", "p">>, <<".", "c", "c">>, <<".", "c", "x", "x">>,
            <<".", "c", "+", "+">>}
FORTRAN_EXT == {<<".", "f">>, <<".", "f", "7", "7">>, <<".", "f", "9", "0">>,
                <<".", "f", "9", "5">>, <<".", "f", "0", "3">>,
                <<".", "f", "0", "8">>}

\* str.lower on one character
LowerChar(ch) ==
  CASE ch = "C" -> "c" [] ch = "F" -> "f" [] ch = "P" -> "p" [] ch = "X" -> "x"
    [] ch = "A" -> "a" [] ch = "R" -> "r" [] OTHER -> ch

Lower(str) == [n \in 1..Len(str) |-> LowerChar(str[n])]

\* str.rfind(ch): the last index of ch, 0 if there is none (Python's -1,
\* shifted to indices that start at 1)
RFind(str, ch) ==
  LET at == {n \in 1..Len(str) : str[n] = ch}
  IN IF at = {} THEN 0 ELSE CHOOSE n \in at : \A m \in at : m <= n

\* os.path.splitext(path)[1]: from the last dot of the last component, unless
\* only dots precede it there
SplitExt(path) ==
  LET sep == RFind(path, "/")
      dot == RFind(path, ".")
  IN IF dot > sep /\ \E n \in (sep + 1)..(dot - 1) : path[n] # "."
     THEN SubSeq(path, dot, Len(path)) ELSE <<>>

\* Calling a function whose body holds a yield returns a generator object,
\* whatever the body goes on to do: the call never returns False.  "return
\* False" inside the body only ends the iteration.  is_false is the value of
\* "iter is False" at the call site; yields is what iterating produces;
\* raises is the exception that iterating raises, "" if none.
\* Lines 31-48
iter_tarfile(a) ==
  LET opened == tarfile_open(a)
  IN [is_false |-> FALSE,
      raises |-> IF opened \in {"TarFile", "ReadError"} THEN "" ELSE opened,
      yields |-> IF opened = "TarFile" THEN RegularNames(tar_members(a)) ELSE <<>>]

(***************************************************************************)
(* Bytes.  A byte is written as its ASCII character where it has a         *)
(* printable one, as two hexadecimal digits otherwise.                     *)
(***************************************************************************)
ByteVal(b) ==
  CASE b = "00" -> 0 [] b = "01" -> 1 [] b = "02" -> 2 [] b = "03" -> 3
    [] b = "04" -> 4 [] b = "05" -> 5 [] b = "1F" -> 31 [] b = "." -> 46
    [] b = "/" -> 47 [] b = "C" -> 67 [] b = "K" -> 75 [] b = "P" -> 80
    [] b = "R" -> 82 [] b = "X" -> 88 [] b = "a" -> 97 [] b = "b" -> 98
    [] b = "c" -> 99 [] b = "s" -> 115 [] b = "8B" -> 139 [] b = "A9" -> 169
    [] b = "C3" -> 195 [] b = "FF" -> 255

\* chr(n) for the code points the model's bytes can decode to
Chr(n) ==
  CASE n = 0 -> "00" [] n = 1 -> "01" [] n = 2 -> "02" [] n = 3 -> "03"
    [] n = 4 -> "04" [] n = 5 -> "05" [] n = 31 -> "1F" [] n = 46 -> "."
    [] n = 47 -> "/" [] n = 67 -> "C" [] n = 75 -> "K" [] n = 80 -> "P"
    [] n = 82 -> "R" [] n = 88 -> "X" [] n = 97 -> "a" [] n = 98 -> "b"
    [] n = 99 -> "c" [] n = 115 -> "s" [] n = 233 -> "U+00E9"

\* bytes.decode("utf-8"): a byte below 0x80 is its own code point, a lead
\* byte 0xC2..0xDF takes one continuation byte 0x80..0xBF, any other start
\* raises UnicodeDecodeError (ok = FALSE); longer forms do not occur among
\* the model's bytes
RECURSIVE Utf8Decode(_)
Utf8Decode(bytes) ==
  IF bytes = <<>> THEN [ok |-> TRUE, text |-> <<>>]
  ELSE LET lead == ByteVal(bytes[1])
       IN IF lead < 128
          THEN LET rest == Utf8Decode(Tail(bytes))
               IN [ok |-> rest.ok, text |-> <<Chr(lead)>> \o rest.text]
          ELSE IF /\ 194 <= lead /\ lead <= 223 /\ Len(bytes) >= 2
                  /\ 128 <= ByteVal(bytes[2]) /\ ByteVal(bytes[2]) <= 191
               THEN LET rest == Utf8Decode(SubSeq(bytes, 3, Len(bytes)))
                        cp == (lead - 192) * 64 + (ByteVal(bytes[2]) - 128)
                    IN [ok |-> rest.ok, text |-> <<Chr(cp)>> \o rest.text]
               ELSE [ok |-> FALSE, text |-> <<>>]

\* Line 61: the local file header signature
Signature == <<"P", "K", "03", "04">>

\* Line 63: the length of a local file header
LocalHeaderLen == 30

\* contents.startswith(prefix)
StartsWith(contents, prefix) ==
  Len(contents) >= Len(prefix) /\ SubSeq(contents, 1, Len(prefix)) = prefix

\* re.finditer(signature, contents): the start offsets (from 0) of the
\* matches, each search starting where the match before it ended
RECURSIVE FindIter(_, _)
FindIter(contents, pos) ==
  LET hits == {s \in pos..(Len(contents) - Len(Signature)) :
                 SubSeq(contents, s + 1, s + Len(Signature)) = Signature}
  IN IF hits = {} THEN <<>>
     ELSE LET s == CHOOSE h \in hits : \A g \in hits : h <= g
          IN <<s>> \o FindIter(contents, s + Len(Signature))

\* contents[from:to], a Python slice with 0 <= from <= to
Slice(contents, from, to) ==
  SubSeq(contents, from + 1, IF to < Len(contents) THEN to ELSE Len(contents))

\* ZipEntry without the test that the declared name ends inside the buffer
ZipEntry_NoOverrunTest(contents, start) ==
  LET end == start + LocalHeaderLen
      header == Slice(contents, start, end)
  IN IF Len(header) # LocalHeaderLen THEN [ok |-> FALSE, text |-> <<>>]
     ELSE LET path_len == ByteVal(header[27]) + 256 * ByteVal(header[28])
          IN IF path_len < 1
             THEN [ok |-> FALSE, text |-> <<>>]
             ELSE Utf8Decode(Slice(contents, end, end + path_len))

\* Lines 62-76, one match: the path yielded for the signature at offset
\* start, or none (ok = FALSE)
ZipEntry(contents, start) ==
  LET end == start + LocalHeaderLen
      header == Slice(contents, start, end)
  IN IF Len(header) # LocalHeaderLen THEN [ok |-> FALSE, text |-> <<>>]
     ELSE LET path_len == ByteVal(header[27]) + 256 * ByteVal(header[28])
          IN IF path_len < 1 \/ end + path_len > Len(contents)
             THEN [ok |-> FALSE, text |-> <<>>]
             ELSE Utf8Decode(Slice(contents, end, end + path_len))

\* Lines 61-76, the loop: each yield, with the value start has when it is
\* made
RECURSIVE ZipScan(_, _)
ZipScan(contents, starts) ==
  IF starts = <<>> THEN <<>>
  ELSE LET e == ZipEntry(contents, Head(starts))
       IN (IF e.ok THEN <<[start |-> Head(starts), path |-> e.text]>> ELSE <<>>)
          \o ZipScan(contents, Tail(starts))

\* Lines 55-76: what iterating iter_zipfile(p) yields when p holds contents
ZipYields(contents) ==
  IF ~StartsWith(contents, <<"P", "K">>) THEN <<>>
  ELSE ZipScan(contents, FindIter(contents, 0))

\* Lines 51-76
iter_zipfile(a) ==
  LET scanned == ZipYields(a.bytes)
  IN [is_false |-> FALSE,
      raises |-> "",
      yields |-> [n \in 1..Len(scanned) |-> scanned[n].path]]

\* Lines 168-176, one path: the extension, lowered, sets at most one flag
ClassifyPath(flags, path) ==
  LET ext == Lower(SplitExt(path))
  IN IF ext \in C_EXT THEN [flags EXCEPT !.c = TRUE]
     ELSE IF ext \in CXX_EXT THEN [flags EXCEPT !.cxx = TRUE]
     ELSE IF ext \in FORTRAN_EXT THEN [flags EXCEPT !.fortran = TRUE]
     ELSE flags

\* Lines 166-176: the loop over the paths, in the order they are yielded
RECURSIVE ClassifyPaths(_, _)
ClassifyPaths(flags, paths) ==
  IF paths = <<>> THEN flags
  ELSE ClassifyPaths(ClassifyPath(flags, Head(paths)), Tail(paths))

\* Languages with each language appended when its first file is met
Languages_AsMet(paths) ==
  LET RECURSIVE Met(_, _)
      Met(languages, rest) ==
        IF rest = <<>> THEN languages
        ELSE LET f == ClassifyPath([c |-> FALSE, cxx |-> FALSE, fortran |-> FALSE],
                                   Head(rest))
                 lang == IF f.c THEN <<"c">> ELSE IF f.cxx THEN <<"cxx">>
                         ELSE IF f.fortran THEN <<"fortran">> ELSE <<>>
             IN Met(IF lang # <<>> /\ \A n \in 1..Len(languages) : languages[n] # lang[1]
                    THEN languages \o lang ELSE languages, Tail(rest))
  IN Met(<<>>, paths)

\* Lines 159-184 of run(): the flags start false for each archive, the loop
\* sets them, and the list is built in the order c, cxx, fortran
Languages(paths) ==
  LET flags == ClassifyPaths([c |-> FALSE, cxx |-> FALSE, fortran |-> FALSE], paths)
  IN (IF flags.c THEN <<"c">> ELSE <<>>) \o (IF flags.cxx THEN <<"cxx">> ELSE <<>>)
     \o (IF flags.fortran THEN <<"fortran">> ELSE <<>>)

\* Lines 161-167 of run(): the paths the loop over iter sees; "skip" when
\* both calls returned False; raises is the exception the loop lets through
ArchivePaths(a) ==
  LET it1 == iter_tarfile(a)
      it2 == IF it1.is_false THEN iter_zipfile(a) ELSE it1
  IN IF it2.is_false THEN [skip |-> TRUE, raises |-> "", paths |-> <<>>]
     ELSE [skip |-> FALSE, raises |-> it2.raises, paths |-> it2.yields]

(***************************************************************************)
(* Patching                                                                *)
(***************************************************************************)
GeneratedTok(lang) ==
  CASE lang = "c" -> "depends_on(\"c\", type=\"build\")  # generated"
    [] lang = "cxx" -> "depends_on(\"cxx\", type=\"build\")  # generated"
    [] lang = "fortran" -> "depends_on(\"fortran\", type=\"build\")  # generated"

\* Lines 225-231: an empty line, then one declaration per language, each
\* indented by four spaces
langauge_statements(languages) ==
  <<[ind |-> 0, tok |-> ""]>>
  \o [n \in 1..Len(languages) |-> [ind |-> 1, tok |-> GeneratedTok(languages[n])]]

\* InsertAfter with the statements put before the line instead of after it
InsertAfter_OffByOne(lines, location, statements) ==
  SubSeq(lines, 1, location - 1) \o statements \o SubSeq(lines, location, Len(lines))

\* Line 233: lines[:location] + statements + lines[location:]
InsertAfter(lines, location, statements) ==
  SubSeq(lines, 1, location) \o statements \o SubSeq(lines, location + 1, Len(lines))

(***************************************************************************)
(* run(packages)                                                           *)
(***************************************************************************)
Pkgs == 1..NumPkgs
Digests == {"d1", "d2"}

\* The bytes with which ByteVal is defined
Bytes ==
  {"00", "01", "02", "03", "04", "05", "1F", ".", "/", "C", "K", "P", "R", "X",
   "a", "b", "c", "s", "8B", "A9", "C3", "FF"}

\* A local file header that declares a file name of n bytes and no extra
\* field; the fields before the name length are zero
LocalHeader(n) ==
  Signature \o [k \in 1..22 |-> "00"]
  \o <<CHOOSE b \in Bytes : ByteVal(b) = n % 256,
       CHOOSE b \in Bytes : ByteVal(b) = n \div 256>>
  \o <<"00", "00">>

\* What tarfile finds in a file that is no tar archive
NotTar ==
  [comp |-> "none", members |-> <<>>, parsed |-> 0, fail |-> "InvalidHeaderError"]

\* The files a download can leave: an intact tar archive with a C source, an
\* intact one without sources, a gzip-compressed one cut inside its first
\* header, a zip archive with a C++ and a C source, and a file that is
\* neither
Archives ==
  {[tar |-> [comp |-> "none", parsed |-> 1, fail |-> "EOFHeaderError",
             members |-> <<[type |-> "REGTYPE", name |-> <<"s", "/", "a", ".", "c">>]>>],
    bytes |-> <<"s", "/", "a", ".", "c", "00">>],
   [tar |-> [comp |-> "none", parsed |-> 1, fail |-> "EOFHeaderError",
             members |-> <<[type |-> "REGTYPE", name |-> <<"R">>]>>],
    bytes |-> <<"R", "00">>],
   [tar |-> [comp |-> "gz", parsed |-> 0, fail |-> "compressed stream ended",
             members |-> <<[type |-> "REGTYPE", name |-> <<"s", "/", "a", ".", "c">>]>>],
    bytes |-> <<"1F", "8B">>],
   [tar |-> NotTar,
    bytes |-> LocalHeader(4) \o <<"a", ".", "C", "C">>
              \o LocalHeader(3) \o <<"b", ".", "c">>],
   [tar |-> NotTar, bytes |-> <<"X">>]}

\* The package definitions a run is checked on
PkgSources ==
  {<<[ind |-> 0, tok |-> "class Pkg:"], [ind |-> 1, tok |-> "version(...)"]>>,
   <<[ind |-> 0, tok |-> "class Pkg:"], [ind |-> 1, tok |-> "depends_on(...)"]>>,
   <<[ind |-> 0, tok |-> "class Other:"], [ind |-> 1, tok |-> "version(...)"]>>,
   <<[ind |-> 0, tok |-> "class Pkg:"], [ind |-> 1, tok |-> "depends_on(...)"],
     [ind |-> 0, tok |-> "version(...)"]>>,
   <<[ind |-> 0, tok |-> "class Pkg:"], [ind |-> 2, tok |-> "version(...)"],
     [ind |-> 1, tok |-> "version(...)"]>>}

Batch == {p \in Pkgs : lo <= p /\ p < lo + BATCH_SIZE}

Init ==
  /\ UnitIdle
  /\ DOWNLOADED_DIGESTS = {}
  /\ DIGEST_TO_LANGS = <<>>
  /\ download_dir = <<>>
  /\ curl_args = <<>>
  /\ scan = {}
  /\ versions \in [Pkgs -> Digests \cup {"none"}]
  /\ files \in [Pkgs -> PkgSources]
  /\ pc = "batch" /\ lo = 1 /\ idx = 1 /\ run_no = 1
  /\ skipped = {}
  /\ orig = files
  /\ prev = <<>>
  /\ written = [d \in Digests |-> 0]
  /\ requested = [d \in Digests |-> 0]

\* StartBatch without lines 116-117: the files of the batch before stay in
\* the download directory
StartBatch_KeepsFiles ==
  /\ pc = "batch" /\ lo <= NumPkgs
  /\ curl_args' = <<>>
  /\ idx' = lo
  /\ pc' = "resolve"
  /\ UNCHANGED <<DOWNLOADED_DIGESTS, DIGEST_TO_LANGS, download_dir, scan, versions,
                 files, lo, run_no, skipped, orig, prev, written, requested>>
  /\ UNCHANGED unitVars

\* Lines 114-119: the next batch, if there is one; the download directory is
\* emptied and curl's arguments start empty
StartBatch ==
  /\ pc = "batch" /\ lo <= NumPkgs
  /\ download_dir' = <<>>
  /\ curl_args' = <<>>
  /\ idx' = lo
  /\ pc' = "resolve"
  /\ UNCHANGED <<DOWNLOADED_DIGESTS, DIGEST_TO_LANGS, scan, versions, files, lo,
                 run_no, skipped, orig, prev,
                 written, requested>>
  /\ UNCHANGED unitVars

\* Line 114: no batch is left and run() returns
Finish ==
  /\ pc = "batch" /\ lo > NumPkgs
  /\ pc' = "done"
  /\ UNCHANGED <<DOWNLOADED_DIGESTS, DIGEST_TO_LANGS, download_dir, curl_args,
                 scan, versions, files, lo, idx, run_no, skipped, orig, prev,
                 written, requested>>
  /\ UNCHANGED unitVars

\* Resolve without the test of lines 147-148
Resolve_NoSeenTest ==
  /\ pc = "resolve" /\ idx \in Batch
  /\ \E stage \in {"error", "no url fetcher", "file url", "url"} :
       LET digest == versions[idx]
           skip == stage # "url" \/ digest = "none"
       IN /\ skipped' = IF skip THEN skipped \cup {idx} ELSE skipped
          /\ DOWNLOADED_DIGESTS' = IF skip THEN DOWNLOADED_DIGESTS
                                   ELSE DOWNLOADED_DIGESTS \cup {digest}
          /\ curl_args' = IF skip THEN curl_args ELSE Append(curl_args, digest)
  /\ idx' = idx + 1
  /\ pc' = IF idx + 1 \in Batch THEN "resolve" ELSE "download"
  /\ UNCHANGED <<DIGEST_TO_LANGS, download_dir, scan, versions, files, lo,
                 run_no, orig, prev, written, requested>>
  /\ UNCHANGED unitVars

\* Lines 120-152, one package: what obtaining the stage and its fetcher
\* gives is the environment's choice; a URL fetcher's digest is the digest
\* of the preferred version
Resolve ==
  /\ pc = "resolve" /\ idx \in Batch
  /\ \E stage \in {"error", "no url fetcher", "file url", "url"} :
       LET digest == versions[idx]
           skip == stage # "url" \/ digest = "none"
           seen == digest \in DOWNLOADED_DIGESTS
       IN /\ skipped' = IF skip THEN skipped \cup {idx} ELSE skipped
          /\ DOWNLOADED_DIGESTS' = IF skip \/ seen THEN DOWNLOADED_DIGESTS
                                   ELSE DOWNLOADED_DIGESTS \cup {digest}
          /\ curl_args' = IF skip \/ seen THEN curl_args
                          ELSE Append(curl_args, digest)
  /\ idx' = idx + 1
  /\ pc' = IF idx + 1 \in Batch THEN "resolve" ELSE "download"
  /\ UNCHANGED <<DIGEST_TO_LANGS, download_dir, scan, versions, files, lo,
                 run_no, orig, prev,
                 written, requested>>
  /\ UNCHANGED unitVars

\* Line 155: curl writes, for each url on its command line, a file named by
\* the digest, or none if that transfer fails; what it writes is whatever
\* the server sent within the time limit.  Line 158 then lists the directory.
Download ==
  /\ pc = "download"
  /\ \E got \in SUBSET {curl_args[n] : n \in 1..Len(curl_args)} :
       \E dir \in [got -> Archives] :
         LET listing == [d \in DOMAIN download_dir \cup got |->
                           IF d \in got THEN dir[d] ELSE download_dir[d]]
         IN /\ download_dir' = listing
            /\ scan' = DOMAIN listing
            /\ pc' = IF DOMAIN listing = {} THEN "update" ELSE "classify"
  /\ requested' = [d \in Digests |->
                     requested[d] + Cardinality({n \in 1..Len(curl_args) : curl_args[n] = d})]
  /\ idx' = lo
  /\ UNCHANGED <<DOWNLOADED_DIGESTS, DIGEST_TO_LANGS, curl_args, versions, files,
                 lo, run_no, skipped, orig, prev, written>>
  /\ UNCHANGED unitVars

\* Classify without the test of line 186: an empty list is stored too
Classify_StoresEmpty ==
  /\ pc = "classify"
  /\ \E archive \in scan :
       LET it == ArchivePaths(download_dir[archive])
           languages == Languages(it.paths)
           stored == ~(it.skip \/ it.raises # "")
       IN /\ DIGEST_TO_LANGS' =
               IF stored
               THEN [d \in DOMAIN DIGEST_TO_LANGS \cup {archive} |->
                       IF d = archive THEN languages ELSE DIGEST_TO_LANGS[d]]
               ELSE DIGEST_TO_LANGS
          /\ written' = IF stored THEN [written EXCEPT ![archive] = @ + 1] ELSE written
          /\ scan' = scan \ {archive}
          /\ pc' = IF it.raises # "" THEN "raised in classify"
                   ELSE IF scan \ {archive} = {} THEN "update" ELSE "classify"
  /\ UNCHANGED <<DOWNLOADED_DIGESTS, download_dir, curl_args, versions, files,
                 lo, idx, run_no, skipped, orig, prev, requested>>
  /\ UNCHANGED unitVars

\* Lines 158-189, one archive, in the order os.scandir gives
Classify ==
  /\ pc = "classify"
  /\ \E archive \in scan :
       LET it == ArchivePaths(download_dir[archive])
           languages == Languages(it.paths)
           stored == ~(it.skip \/ it.raises # "" \/ languages = <<>>)
       IN /\ DIGEST_TO_LANGS' =
               IF stored
               THEN [d \in DOMAIN DIGEST_TO_LANGS \cup {archive} |->
                       IF d = archive THEN languages ELSE DIGEST_TO_LANGS[d]]
               ELSE DIGEST_TO_LANGS
          /\ written' = IF stored THEN [written EXCEPT ![archive] = @ + 1] ELSE written
          /\ scan' = scan \ {archive}
          /\ pc' = IF it.raises # "" THEN "raised in classify"
                   ELSE IF scan \ {archive} = {} THEN "update" ELSE "classify"
  /\ UNCHANGED <<DOWNLOADED_DIGESTS, download_dir, curl_args, versions, files,
                 lo, idx, run_no, skipped, orig, prev, requested>>
  /\ UNCHANGED unitVars

\* UpdateOutcome with the languages looked up only for the archives that
\* the current batch downloaded
UpdateOutcome_ThisBatchOnly(p) ==
  LET digest == versions[p]
  IN IF digest = "none" THEN "pass"
     ELSE IF digest \notin DOMAIN DIGEST_TO_LANGS \cap DOMAIN download_dir THEN "pass"
     ELSE IF ~SyntaxOK(files[p]) THEN "raise"
     ELSE IF ~Locate(files[p], PkgName).found THEN "skip"
     ELSE "patch"

\* What lines 192-237 do to one package's file: "pass" (no digest, no
\* languages), "raise" (ast.parse raises SyntaxError), "skip" (no anchor) or
\* "patch"
UpdateOutcome(p) ==
  LET digest == versions[p]
  IN IF digest = "none" THEN "pass"
     ELSE IF digest \notin DOMAIN DIGEST_TO_LANGS THEN "pass"
     ELSE IF ~SyntaxOK(files[p]) THEN "raise"
     ELSE IF ~Locate(files[p], PkgName).found THEN "skip"
     ELSE "patch"

\* Lines 192-237, one package
Update ==
  /\ pc = "update" /\ idx \in Batch
  /\ LET last == idx + 1 \notin Batch
         out == UpdateOutcome(idx)
     IN /\ files' =
             IF out = "patch"
             THEN [files EXCEPT ![idx] =
                     InsertAfter(@, Locate(@, PkgName).line,
                                 langauge_statements(DIGEST_TO_LANGS[versions[idx]]))]
             ELSE files
        /\ pc' = IF out = "raise" THEN "raised"
                 ELSE IF last THEN "batch" ELSE "update"
        /\ idx' = IF out = "raise" THEN idx ELSE idx + 1
        /\ lo' = IF out # "raise" /\ last THEN lo + BATCH_SIZE ELSE lo
  /\ UNCHANGED <<DOWNLOADED_DIGESTS, DIGEST_TO_LANGS, download_dir, curl_args,
                 scan, versions, run_no, skipped, orig, prev,
                 written, requested>>
  /\ UNCHANGED unitVars

\* The script is invoked again: a new process, whose module globals start
\* empty, on the package files the first run left
Rerun ==
  /\ pc = "done" /\ run_no = 1
  /\ run_no' = 2
  /\ prev' = [files |-> files, langs |-> DIGEST_TO_LANGS]
  /\ orig' = files
  /\ DOWNLOADED_DIGESTS' = {}
  /\ DIGEST_TO_LANGS' = <<>>
  /\ written' = [d \in Digests |-> 0]
  /\ requested' = [d \in Digests |-> 0]
  /\ skipped' = {}
  /\ pc' = "batch" /\ lo' = 1 /\ idx' = 1
  /\ UNCHANGED <<download_dir, curl_args, scan, versions, files>>
  /\ UNCHANGED unitVars

Next ==
  \/ StartBatch
  \/ Finish
  \/ Resolve
  \/ Download
  \/ Classify
  \/ Update
  \/ Rerun

Spec == Init /\ [][Next]_vars

(***************************************************************************)
(* Unit specification of the patch step, lines 223-236, on text as a       *)
(* sequence of characters                                                  *)
(***************************************************************************)
MaxChars == 4
MaxDecls == 2

Chars == {"a", "b", "\n"}

\* contents.split("\n")
RECURSIVE Split(_)
Split(text) ==
  LET nl == {n \in 1..Len(text) : text[n] = "\n"}
  IN IF nl = {} THEN <<text>>
     ELSE LET first == CHOOSE n \in nl : \A m \in nl : n <= m
          IN <<SubSeq(text, 1, first - 1)>>
             \o Split(SubSeq(text, first + 1, Len(text)))

\* "\n".join(lines)
RECURSIVE Join(_)
Join(lines) ==
  IF Len(lines) = 0 THEN <<>>
  ELSE IF Len(lines) = 1 THEN lines[1]
  ELSE lines[1] \o <<"\n">> \o Join(Tail(lines))

\* Line 228: the declaration of one language, as the pieces of the f-string
Declaration(lang) == <<"    depends_on(\"", lang, "\", type=\"build\")  # generated">>

RECURSIVE SeqsUpTo(_, _)
SeqsUpTo(S, n) ==
  IF n = 0 THEN {<<>>}
  ELSE LET R == SeqsUpTo(S, n - 1)
       IN R \cup {Append(r, x) : r \in {q \in R : Len(q) = n - 1}, x \in S}

\* Lines 223-236: split, insert an empty line and the declarations, join
PatchText(contents, location, declarations) ==
  Join(InsertAfter(Split(contents), location, <<<<>>>> \o declarations))

PatchInit ==
  /\ fn = "patch"
  /\ \E text \in SeqsUpTo(Chars, MaxChars) :
       \E decls \in SeqsUpTo({Declaration(l) : l \in {"c", "cxx", "fortran"}}, MaxDecls) :
         \E n \in 1..Len(Split(text)) :
           fn_in = [contents |-> text, location |-> n, declarations |-> decls]
  /\ fn_out = <<>>
  /\ fn_pc = "call"
  /\ RunIdle

PatchCall ==
  /\ fn = "patch" /\ fn_pc = "call"
  /\ fn_out' = PatchText(fn_in.contents, fn_in.location, fn_in.declarations)
  /\ fn_pc' = "done"
  /\ UNCHANGED <<fn, fn_in>>
  /\ UNCHANGED runVars

PatchNext == PatchCall

SpecPatch == PatchInit /\ [][PatchNext]_vars

(***************************************************************************)
(* Unit specification of iter_tarfile, lines 31-48, on archives of at most *)
(* MaxMembers members whose header reading stops anywhere, for any reason  *)
(***************************************************************************)
MaxMembers == 2

TarInfos ==
  {[type |-> t, name |-> n] :
     t \in {"REGTYPE", "AREGTYPE", "DIRTYPE", "SYMTYPE", "LNKTYPE", "CHRTYPE"},
     n \in {<<"a">>, <<"b">>}}

\* The tar archives: header reading stops after parsed members; the block of
\* zeros stands after the last member, the data that is cut short is that of
\* a member, and only a compressed stream can end early.  iter_tarfile does
\* not read the file's bytes itself.
TarFiles ==
  {a \in [tar : [comp : {"none", "gz", "bz2"},
                 members : SeqsUpTo(TarInfos, MaxMembers),
                 parsed : 0..MaxMembers,
                 fail : HeaderFailures],
          bytes : {<<>>}] :
     /\ a.tar.parsed <= Len(a.tar.members)
     /\ a.tar.fail = "EOFHeaderError" => a.tar.parsed = Len(a.tar.members)
     /\ a.tar.fail = "unexpected end of data" => a.tar.parsed >= 1
     /\ a.tar.fail = "compressed stream ended" => a.tar.comp # "none"}

TarInit ==
  /\ fn = "iter_tarfile"
  /\ fn_in \in TarFiles
  /\ fn_out = [is_false |-> FALSE, raises |-> "", yields |-> <<>>]
  /\ fn_pc = "call"
  /\ RunIdle

\* list(iter_tarfile(p))
TarCall ==
  /\ fn = "iter_tarfile" /\ fn_pc = "call"
  /\ fn_out' = iter_tarfile(fn_in)
  /\ fn_pc' = "done"
  /\ UNCHANGED <<fn, fn_in>>
  /\ UNCHANGED runVars

TarNext == TarCall

SpecTar == TarInit /\ [][TarNext]_vars

(***************************************************************************)
(* Unit specification of iter_zipfile, lines 51-76: the scan of a buffer   *)
(* and of the same buffer with one byte changed                            *)
(***************************************************************************)
MaxPieces == 3

\* What the buffers are put together from: a bare signature, local file
\* headers declaring names of 0, 1, 2 and 4 bytes, and name bytes (ASCII, a
\* two-byte character, a byte that never occurs in UTF-8)
ZipPieces ==
  {Signature, LocalHeader(0), LocalHeader(1), LocalHeader(2), LocalHeader(4),
   <<"a">>, <<"C3", "A9">>, <<"FF">>}

RECURSIVE Flatten(_)
Flatten(pieces) ==
  IF pieces = <<>> THEN <<>> ELSE Head(pieces) \o Flatten(Tail(pieces))

ZipBuffers == {Flatten(ps) : ps \in SeqsUpTo(ZipPieces, MaxPieces)}

\* The bytes a changed byte is set to
ChangedTo == {"X", "00"}

\* contents with the byte at offset at (from 0) set to byte
Changed(in) == [in.contents EXCEPT ![in.at + 1] = in.to]

ZipInit ==
  /\ fn = "iter_zipfile"
  /\ \E b \in ZipBuffers : \E i \in 0..(Len(b) - 1) : \E v \in ChangedTo :
       fn_in = [contents |-> b, at |-> i, to |-> v]
  /\ fn_out = [first |-> <<>>, second |-> <<>>]
  /\ fn_pc = "call"
  /\ RunIdle

\* list(iter_zipfile(p)) on the buffer
ZipCall ==
  /\ fn = "iter_zipfile" /\ fn_pc = "call"
  /\ fn_out' = [fn_out EXCEPT !.first = ZipYields(fn_in.contents)]
  /\ fn_pc' = "again"
  /\ UNCHANGED <<fn, fn_in>>
  /\ UNCHANGED runVars

\* list(iter_zipfile(p)) on the buffer with the byte changed
ZipCallChanged ==
  /\ fn = "iter_zipfile" /\ fn_pc = "again"
  /\ fn_out' = [fn_out EXCEPT !.second = ZipYields(Changed(fn_in))]
  /\ fn_pc' = "done"
  /\ UNCHANGED <<fn, fn_in>>
  /\ UNCHANGED runVars

ZipNext == ZipCall \/ ZipCallChanged

SpecZip == ZipInit /\ [][ZipNext]_vars

(***************************************************************************)
(* Unit specification of the classification of one archive's paths, lines  *)
(* 159-184: the same paths twice, then the paths in another order          *)
(***************************************************************************)
MaxPaths == 3

\* Member paths: sources of each language, extensions in upper case, no
\* extension, a name that is only an extension, an extension in a directory
\* name
MemberPaths ==
  {<<"a", ".", "c">>, <<"a", ".", "C">>, <<"a", ".", "c", "c">>,
   <<"a", ".", "C", "P", "P">>, <<"a", ".", "f">>, <<"a", ".", "F", "9", "0">>,
   <<"R">>, <<".", "c">>, <<"s", ".", "c", "/", "a">>}

\* The orders in which n paths can stand
Perms(n) == {f \in [1..n -> 1..n] : \A i, j \in 1..n : f[i] = f[j] => i = j}

ClassifyInit ==
  /\ fn = "classify"
  /\ \E paths \in SeqsUpTo(MemberPaths, MaxPaths) : \E f \in Perms(Len(paths)) :
       fn_in = [paths |-> paths, permuted |-> [i \in 1..Len(paths) |-> paths[f[i]]]]
  /\ fn_out = [first |-> <<>>, second |-> <<>>, permuted |-> <<>>]
  /\ fn_pc = "call"
  /\ RunIdle

\* One pass of the loop of line 158 over an archive that yields the paths
ClassifyCall ==
  /\ fn = "classify" /\ fn_pc = "call"
  /\ fn_out' = [fn_out EXCEPT !.first = Languages(fn_in.paths)]
  /\ fn_pc' = "again"
  /\ UNCHANGED <<fn, fn_in>>
  /\ UNCHANGED runVars

\* The next pass, over an archive that yields the same paths
ClassifyAgain ==
  /\ fn = "classify" /\ fn_pc = "again"
  /\ fn_out' = [fn_out EXCEPT !.second = Languages(fn_in.paths)]
  /\ fn_pc' = "permuted"
  /\ UNCHANGED <<fn, fn_in>>
  /\ UNCHANGED runVars

\* The next pass, over an archive that yields them in another order
ClassifyPermuted ==
  /\ fn = "classify" /\ fn_pc = "permuted"
  /\ fn_out' = [fn_out EXCEPT !.permuted = Languages(fn_in.permuted)]
  /\ fn_pc' = "done"
  /\ UNCHANGED <<fn, fn_in>>
  /\ UNCHANGED runVars

ClassifyNext == ClassifyCall \/ ClassifyAgain \/ ClassifyPermuted

SpecClassify == ClassifyInit /\ [][ClassifyNext]_vars

(***************************************************************************)
(* Unit specification of lines 210-233 applied to a definition and then    *)
(* lines 210-221 applied to the text that results                          *)
(***************************************************************************)
\* The non-empty lists that line 189 can store
LanguageLists ==
  {<<"c">>, <<"cxx">>, <<"fortran">>, <<"c", "cxx">>, <<"c", "fortran">>,
   <<"cxx", "fortran">>, <<"c", "cxx", "fortran">>}

\* The text with every level of indentation eight spaces wide instead of
\* four
EightSpaces(lines) == [i \in 1..Len(lines) |-> [lines[i] EXCEPT !.ind = 2 * @]]

\* Lines 212-221: ast.parse, the visitor, the anchor
ParseAndLocate(lines) ==
  IF ~SyntaxOK(lines) THEN [raises |-> "SyntaxError", found |-> FALSE, line |-> 0]
  ELSE LET at == Locate(lines, PkgName)
       IN [raises |-> "", found |-> at.found, line |-> at.line]

RelocateInit ==
  /\ fn = "relocate"
  /\ \E t \in Sources : \E languages \in LanguageLists :
       \/ fn_in = [contents |-> t, languages |-> languages]
       \/ fn_in = [contents |-> EightSpaces(t), languages |-> languages]
  /\ fn_out = [first |-> [raises |-> "", found |-> FALSE, line |-> 0],
               patched |-> <<>>,
               again |-> [raises |-> "", found |-> FALSE, line |-> 0]]
  /\ fn_pc = "call"
  /\ RunIdle

\* Lines 210-237 on the definition: the anchor and the text written back,
\* or the skip of lines 217-219
RelocatePatch ==
  /\ fn = "relocate" /\ fn_pc = "call"
  /\ LET first == ParseAndLocate(fn_in.contents)
     IN /\ fn_out' = [fn_out EXCEPT
                        !.first = first,
                        !.patched = IF first.found
                                    THEN InsertAfter(fn_in.contents, first.line,
                                                     langauge_statements(fn_in.languages))
                                    ELSE fn_in.contents]
        /\ fn_pc' = IF first.found THEN "patched" ELSE "skipped"
  /\ UNCHANGED <<fn, fn_in>>
  /\ UNCHANGED runVars

\* Lines 210-221 on the text written back
RelocateAgain ==
  /\ fn = "relocate" /\ fn_pc = "patched"
  /\ fn_out' = [fn_out EXCEPT !.again = ParseAndLocate(fn_out.patched)]
  /\ fn_pc' = "done"
  /\ UNCHANGED <<fn, fn_in>>
  /\ UNCHANGED runVars

RelocateNext == RelocatePatch \/ RelocateAgain

SpecRelocate == RelocateInit /\ [][RelocateNext]_vars

(***************************************************************************)
(* Structure of a source text, read off the indentation alone (used to     *)
(* state the claims about the locator independently of its traversal)      *)
(***************************************************************************)
RECURSIVE AncOrSelf(_, _)
AncOrSelf(lines, i) ==
  IF i = 0 THEN {} ELSE {i} \cup AncOrSelf(lines, Parent(lines, i))

PkgClassLines(lines) == {i \in 1..Len(lines) : lines[i].tok = "class Pkg:"}

\* the class the traversal enters first
FirstPkgClass(lines) ==
  CHOOSE c \in PkgClassLines(lines) : \A d \in PkgClassLines(lines) : c <= d

HoldsVersionCall(l) == l.tok \in {"version(...)", "f = lambda: version(...)"}

InBodyOf(lines, c, i) == c < i /\ i <= EndLineno(lines, c)

\* the version calls in the body of class c that no plain function hides
BodyVersionCalls(lines, c) ==
  {i \in 1..Len(lines) :
     /\ InBodyOf(lines, c, i)
     /\ HoldsVersionCall(lines[i])
     /\ \A a \in AncOrSelf(lines, i) : a > c => StmtKind(lines[a].tok) # "FunctionDef"}

\* the outermost statement after the header of class c that encloses line i
OutermostStmt(lines, c, i) ==
  CHOOSE a \in AncOrSelf(lines, i) : a > c /\ Parent(lines, a) <= c

\* the statement of the call whose stack the visitor kept
RecordedCall(lines) ==
  LET st == Visit(lines, PkgName).last_version_stack IN st[Len(st)].at

Located == fn = "locate" /\ fn_pc = "done"

(***************************************************************************)
(* Claims about the Anchor Locator (specification SpecLocate)              *)
(***************************************************************************)
\* C3: whenever an anchor is recorded, the statement whose end line is
\* returned lies within the body of the class named definition_name.
C3_AnchorInsideDefinition ==
  (Located /\ fn_out.found) =>
    \E c \in PkgClassLines(fn_in.contents) :
      InBodyOf(fn_in.contents, c, fn_out.line)

C6_LastVersionCallOfBody ==
  (Located /\ PkgClassLines(fn_in.contents) # {}) =>
    LET lines == fn_in.contents
        c == FirstPkgClass(lines)
        calls == BodyVersionCalls(lines, c)
    IN calls # {} =>
         LET last == CHOOSE i \in calls : \A j \in calls : j <= i
         IN /\ fn_out.found
            /\ fn_out.line = EndLineno(lines, OutermostStmt(lines, c, last))

\* the text with every version call inside the body of a callable of class
\* c (plain function, async function, lambda) taken out
WithoutCallableBodies(lines, c) ==
  [i \in 1..Len(lines) |->
     IF /\ InBodyOf(lines, c, i)
        /\ HoldsVersionCall(lines[i])
        /\ \/ lines[i].tok = "f = lambda: version(...)"
           \/ \E a \in AncOrSelf(lines, i) :
                a > c /\ StmtKind(lines[a].tok) \in {"FunctionDef", "AsyncFunctionDef"}
     THEN [lines[i] EXCEPT !.tok = IF @ = "version(...)" THEN "depends_on(...)"
                                   ELSE "f = lambda: None"]
     ELSE lines[i]]

\* C7: a version call inside the body of a nested callable (plain function,
\* async function, lambda) never changes the result: it is the same as for
\* the text with those calls taken out.
C7_CallableBodiesOpaque ==
  (Located /\ PkgClassLines(fn_in.contents) # {}) =>
    fn_out = Locate(WithoutCallableBodies(fn_in.contents,
                                          FirstPkgClass(fn_in.contents)), PkgName)

\* C18: whenever an anchor is found, so that the patch step is invoked, the
\* line number is at least 1 and at most the number of lines of the text.
C18_LineInRange ==
  (Located /\ fn_out.found) =>
    (1 <= fn_out.line /\ fn_out.line <= Len(fn_in.contents))

\* C18 witness: the anchor is the last line of the text, a line that
\* continues the statement of the recorded call
C18_Witness ==
  /\ Located /\ fn_out.found
  /\ fn_out.line = Len(fn_in.contents)
  /\ fn_in.contents[fn_out.line].tok = "  ...)"

(***************************************************************************)
(* Claims about locating again after the patch (specification              *)
(* SpecRelocate)                                                           *)
(***************************************************************************)
\* C19: for every definition on which the locator returns line n, the
\* locator run on the text with the generated lines inserted after line n
\* raises nothing and returns n again.
C19_AnchorStable ==
  (fn = "relocate" /\ fn_pc = "done") =>
    /\ fn_out.again.raises = ""
    /\ fn_out.again.found
    /\ fn_out.again.line = fn_out.first.line

(***************************************************************************)
(* Claims about the Patch Writer (specification SpecPatch)                 *)
(***************************************************************************)
\* C8: for a text of k lines and 1 <= n <= k, the rewritten text is the
\* original lines 1..n, one empty line, the declarations in the given order,
\* then the original lines n+1..k: 1 + len(declarations) lines are added and
\* every original line is kept, in order.
C8_PatchInsertsAfterLine ==
  (fn = "patch" /\ fn_pc = "done") =>
    LET old == Split(fn_in.contents)
        new == Split(fn_out)
        n == fn_in.location
        d == fn_in.declarations
    IN /\ Len(new) = Len(old) + 1 + Len(d)
       /\ \A i \in 1..n : new[i] = old[i]
       /\ new[n + 1] = <<>>
       /\ \A j \in 1..Len(d) : new[n + 1 + j] = d[j]
       /\ \A i \in (n + 1)..Len(old) : new[i + 1 + Len(d)] = old[i]

\* C8 witness: declarations were inserted in the middle of a text
C8_Witness ==
  /\ fn = "patch" /\ fn_pc = "done"
  /\ Len(fn_in.declarations) = 2
  /\ fn_in.declarations[1] # fn_in.declarations[2]
  /\ fn_in.location < Len(Split(fn_in.contents))
  /\ fn_in.location > 1

(***************************************************************************)
(* Claims about the Container Inspector (specification SpecTar)            *)
(***************************************************************************)
\* C11: for a tar archive whose header reading fails after m >= 0 parsed
\* members, iter_tarfile raises nothing and yields exactly the paths of the
\* regular-file members among the first m members, in archive order, a
\* prefix of what the intact archive yields; members of other types
\* contribute nothing.
C11_TolerantTarReading ==
  (fn = "iter_tarfile" /\ fn_pc = "done") =>
    LET first == SubSeq(fn_in.tar.members, 1, fn_in.tar.parsed)
        intact == RegularNames(fn_in.tar.members)
    IN /\ fn_out.raises = ""
       /\ fn_out.yields = RegularNames(first)
       /\ Len(fn_out.yields) <= Len(intact)
       /\ fn_out.yields = SubSeq(intact, 1, Len(fn_out.yields))

\* The offsets at which the signature stands in a buffer
Occurrences(b) ==
  {s \in 0..(Len(b) - 4) :
     b[s + 1] = "P" /\ b[s + 2] = "K" /\ b[s + 3] = "03" /\ b[s + 4] = "04"}

\* The file name length that the header at offset s declares: bytes 26-27
\* of the header, little-endian
DeclaredLen(b, s) == ByteVal(b[s + 27]) + 256 * ByteVal(b[s + 28])

\* The window of the occurrence at s: the offsets of its header and of the
\* file name the header declares
Window(b, s) == s..(s + 30 + DeclaredLen(b, s) - 1)

\* The declared file name P of the occurrence at s
NameBytes(b, s) == [k \in 1..DeclaredLen(b, s) |-> b[s + 30 + k]]

\* The 30 + |P| bytes from s on are in the buffer, P is not empty and P
\* decodes
Discoverable(b, s) ==
  /\ s + 30 <= Len(b)
  /\ DeclaredLen(b, s) >= 1
  /\ s + 30 + DeclaredLen(b, s) <= Len(b)
  /\ Utf8Decode(NameBytes(b, s)).ok

\* The paths of the discoverable occurrences, by ascending offset
DiscoverablePaths(b) ==
  LET at == SetToSeq({s \in Occurrences(b) : Discoverable(b, s)})
  IN [n \in 1..Len(at) |->
        [start |-> at[n], path |-> Utf8Decode(NameBytes(b, at[n])).text]]

Range(f) == {f[x] : x \in DOMAIN f}

\* Every path the scan of the buffer yields for a window that does not hold
\* the changed byte is yielded, for the same occurrence, by the scan of the
\* changed buffer
OtherWindowsKept ==
  \A e \in Range(fn_out.first) :
    fn_in.at \notin Window(fn_in.contents, e.start) => e \in Range(fn_out.second)

ZipScanned == fn = "iter_zipfile" /\ fn_pc = "done"

\* C12 as stated: in a buffer that starts with PK, the scan yields, for the
\* occurrences of the signature in ascending order, the declared path P of
\* each occurrence whose 30 + |P| bytes are present and whose non-empty P
\* decodes, and of no other; and changing a byte outside a window does not
\* change whether the other windows are detected.
C12_ZipScanAsStated ==
  (ZipScanned /\ StartsWith(fn_in.contents, <<"P", "K">>)) =>
    /\ fn_out.first = DiscoverablePaths(fn_in.contents)
    /\ OtherWindowsKept

\* C12 amended: as above, for a change after which the buffer still starts
\* with PK.
C12_ZipScanPerOccurrence ==
  (ZipScanned /\ StartsWith(fn_in.contents, <<"P", "K">>)) =>
    /\ fn_out.first = DiscoverablePaths(fn_in.contents)
    /\ StartsWith(Changed(fn_in), <<"P", "K">>) =>
         /\ fn_out.second = DiscoverablePaths(Changed(fn_in))
         /\ OtherWindowsKept

\* C12 witness: the scan passes a discarded candidate, yields the path of a
\* later window, and yields it again after a byte outside that window, in
\* the discarded candidate, was changed.
C12_Witness ==
  /\ ZipScanned
  /\ StartsWith(Changed(fn_in), <<"P", "K">>)
  /\ \E e \in Range(fn_out.first) :
       /\ fn_in.at \notin Window(fn_in.contents, e.start)
       /\ fn_in.at < e.start
       /\ \E s \in Occurrences(fn_in.contents) :
            s < e.start /\ ~Discoverable(fn_in.contents, s) /\ fn_in.at >= s
       /\ Changed(fn_in) # fn_in.contents
       /\ e \in Range(fn_out.second)

(***************************************************************************)
(* Claims about the Language Classifier (specification SpecClassify)       *)
(***************************************************************************)
\* the lists that keep the order c, cxx, fortran
CanonicalLists == {<<>>} \cup LanguageLists

\* the language of a path, read off its lowered extension
LanguageOf(path) ==
  LET ext == Lower(SplitExt(path))
  IN IF ext \in C_EXT THEN "c" ELSE IF ext \in CXX_EXT THEN "cxx"
     ELSE IF ext \in FORTRAN_EXT THEN "fortran" ELSE "none"

\* C13: the language list of a path sequence is the same for every
\* permutation of it and when the sequence is classified again, and it is
\* always a subsequence of (c, cxx, fortran) that holds exactly the
\* languages of the paths.
C13_ClassifierCanonical ==
  (fn = "classify" /\ fn_pc = "done") =>
    /\ fn_out.permuted = fn_out.first
    /\ fn_out.second = fn_out.first
    /\ fn_out.first \in CanonicalLists
    /\ Range(fn_out.first) = {LanguageOf(fn_in.paths[n]) : n \in 1..Len(fn_in.paths)} \ {"none"}

\* C13 witness: sources of two languages, met first in one order and then
\* in the other
C13_Witness ==
  /\ fn = "classify" /\ fn_pc = "done"
  /\ Len(fn_out.first) >= 2
  /\ LanguageOf(fn_in.paths[1]) = "cxx"
  /\ LanguageOf(fn_in.permuted[1]) = "c"
  /\ fn_in.permuted # fn_in.paths

(***************************************************************************)
(* Claims about run() (specification Spec)                                 *)
(***************************************************************************)
\* C1: an archive that tarfile.open rejects and whose bytes start with the
\* zip signature is read by the zip scan: once it is classified, the
\* languages of the paths iter_zipfile finds are recorded under its digest.
C1_ZipFallback ==
  pc \in {"classify", "update"} =>
    \A d \in DOMAIN download_dir \ scan :
      LET found == Languages(iter_zipfile(download_dir[d]).yields)
      IN (/\ tarfile_open(download_dir[d]) = "ReadError"
          /\ StartsWith(download_dir[d].bytes, <<"P", "K">>)
          /\ found # <<>>) =>
           (d \in DOMAIN DIGEST_TO_LANGS /\ DIGEST_TO_LANGS[d] = found)

\* C2: a second run on definitions the first run patched, with the same
\* digest -> languages content, leaves every definition as the first run
\* left it.
C2_RerunAddsNothing ==
  (run_no = 2 /\ pc = "done" /\ DIGEST_TO_LANGS = prev.langs) =>
    files = prev.files

\* C4: a failure while processing one archive or one package definition,
\* such as a definition that does not parse, never aborts the run.
C4_FailureIsLocal == pc \notin {"raised", "raised in classify"}

\* C9: a package that met a skip condition while resolving keeps its
\* definition untouched for the whole run.
C9_SkippedUntouched == \A p \in skipped : files[p] = orig[p]

\* the locator's not-found cases: no class of the package's name, or no
\* version call in that class that the traversal can reach
NotFoundCase(lines) ==
  \/ PkgClassLines(lines) = {}
  \/ BodyVersionCalls(lines, FirstPkgClass(lines)) = {}

\* C10: a definition with no class of the package's name, or with no
\* reachable version call in that class, is left unchanged, and the run goes
\* on to the next package.
C10_NotFoundIsLocalSkip ==
  pc # "idle" =>
    \A p \in Pkgs :
      (SyntaxOK(orig[p]) /\ NotFoundCase(orig[p])) =>
        /\ files[p] = orig[p]
        /\ ~(pc = "raised" /\ idx = p)

\* the member paths of a downloaded file with a source file extension: those
\* of the regular members whose headers tarfile parses
SourcePaths(a) ==
  LET names == RegularNames(SubSeq(a.tar.members, 1, a.tar.parsed))
  IN {n \in 1..Len(names) : LanguageOf(names[n]) # "none"}

\* the archives of the current batch that have been classified
Classified == IF pc \in {"classify", "update"} THEN DOMAIN download_dir \ scan ELSE {}

\* C14: every value stored in DIGEST_TO_LANGS is a non-empty language list;
\* a classified archive without a matching extension, or that is no
\* container, has no entry; and a package whose digest has no entry is not
\* patched, so that every patch adds the empty line and at least one
\* declaration.
C14_NoEmptinessRecorded ==
  /\ \A d \in DOMAIN DIGEST_TO_LANGS :
       DIGEST_TO_LANGS[d] \in CanonicalLists \ {<<>>}
  /\ \A d \in Classified :
       SourcePaths(download_dir[d]) = {} => d \notin DOMAIN DIGEST_TO_LANGS
  /\ pc # "idle" =>
       \A p \in Pkgs :
         /\ versions[p] \notin DOMAIN DIGEST_TO_LANGS => files[p] = orig[p]
         /\ files[p] # orig[p] =>
              Len(files[p]) = Len(orig[p]) + 1 + Len(DIGEST_TO_LANGS[versions[p]])

\* C14 witness: an archive without sources was classified and has no entry,
\* while the package of an earlier batch was patched from a non-empty entry
C14_Witness ==
  /\ pc = "update"
  /\ \E d \in Classified :
       SourcePaths(download_dir[d]) = {} /\ d \notin DOMAIN DIGEST_TO_LANGS
  /\ \E p \in Pkgs : files[p] # orig[p]

\* C15: in the steps of one run, an entry of DIGEST_TO_LANGS is neither
\* removed nor given another value, and no key is written more than once.
C15_WriteOnce ==
  [][run_no' = run_no =>
       /\ \A d \in DOMAIN DIGEST_TO_LANGS :
            d \in DOMAIN DIGEST_TO_LANGS' /\ DIGEST_TO_LANGS'[d] = DIGEST_TO_LANGS[d]
       /\ \A d \in DOMAIN written' : written'[d] <= 1]_vars

\* C15 witness: a later batch has written a second key beside the entry an
\* earlier batch wrote
C15_Witness ==
  /\ pc = "update" /\ lo > 1
  /\ Cardinality(DOMAIN DIGEST_TO_LANGS) = 2
  /\ \A d \in DOMAIN DIGEST_TO_LANGS : written[d] = 1
  /\ \E d \in DOMAIN DIGEST_TO_LANGS : d \notin DOMAIN download_dir

Processed ==
  {p \in Pkgs : p < lo \/ (pc \in {"update", "raised"} /\ p \in Batch /\ p < idx)}

\* the number of the batch of package p
BatchOf(p) == (p - 1) \div BATCH_SIZE

\* the digest of p's preferred version has languages stored, and its url was
\* resolved for a package of p's batch or of a batch before it, so that its
\* archive was downloaded and classified no later than p's batch
ClassifiedInTime(p) ==
  /\ versions[p] \in DOMAIN DIGEST_TO_LANGS
  /\ \E q \in Pkgs :
       versions[q] = versions[p] /\ q \notin skipped /\ BatchOf(q) <= BatchOf(p)

\* C17: every package the update loop has gone through, whose digest was
\* downloaded and classified with languages in its batch or an earlier one
\* and whose definition has an anchor, holds its definition with exactly the
\* declarations of that digest inserted after the anchor; the digest was
\* handed to curl once.
C17_ReuseAcrossPackages ==
  \A p \in Processed :
    (/\ ClassifiedInTime(p)
     /\ SyntaxOK(orig[p])
     /\ Locate(orig[p], PkgName).found) =>
      /\ files[p] = InsertAfter(orig[p], Locate(orig[p], PkgName).line,
                                langauge_statements(DIGEST_TO_LANGS[versions[p]]))
      /\ requested[versions[p]] = 1

\* C17 witness: two packages of different batches share a digest; both were
\* patched though the digest was handed to curl once
C17_Witness ==
  /\ pc = "done"
  /\ \E p, q \in Pkgs :
       /\ BatchOf(p) < BatchOf(q)
       /\ versions[p] = versions[q]
       /\ ClassifiedInTime(p)
       /\ requested[versions[p]] = 1
       /\ files[p] # orig[p] /\ files[q] # orig[q]

====
